---------------------------- MODULE Spec2Model ----------------------------
(***************************************************************************)
(* stoker-monitor: the two collectors of the repository.                   *)
(*                                                                         *)
(*  - the streaming collector (src/unnamed/part_000) reads the Stoker's    *)
(*    telnet stream line by line, splits each line on single spaces and    *)
(*    merges probe records into c.probes;                                  *)
(*  - the polling collector (src/main.go) fetches the Stoker's JSON status *)
(*    on a ticker and replaces c.sensors / c.blowers wholesale.            *)
(*                                                                         *)
(* Go strings are sequences of one-character strings, so that              *)
(* strings.Split, strings.HasSuffix, strings.TrimSuffix, strconv.ParseFloat*)
(* and cleanName are computed character by character.  Go's 0-based index  *)
(* parts[i] is At(parts, i).                                               *)
(*                                                                         *)
(* SpecStream and SpecPoll run the ingestion of one program each;          *)
(* SpecExport runs either program while scrape requests call its Collect;  *)
(* FairSpecPoll is SpecPoll with the fairness the Go scheduler gives.      *)
(***************************************************************************)
EXTENDS Integers, Sequences, FiniteSets, TLC

(***************************************************************************)
(* Bounds of the model.                                                    *)
(***************************************************************************)
\* lines the reader consumes in one behaviour
MaxLines == 3
\* dial failures and read errors in one behaviour
MaxFails == 2
\* collections c.loop starts in one behaviour
MaxPolls == 2
\* sensor entries in one payload
MaxSensors == 2
\* blower entries in one payload
MaxBlowers == 1

\* scrape requests that can be in progress at once
NumScrapers == 1

(***************************************************************************)
(* The lines the device may send (reader's input).                         *)
(***************************************************************************)
\* the documented food line (src/unnamed/part_000:85)
FoodLine ==
    <<"2","B","0","0","0","0","1","1","0","A","4","4","2","7","3","0",":"," ","1",".","0"," ",
      "4",".","0"," ","3","9",".","2"," ","-","7",".","5"," ","-","0",".","2"," ","0",".","2",
      " ","-","0",".","0"," ","0",".","3"," ","3","2",".","4">>

\* the same line with one trailing space: an 11th, empty token
FoodLineSp ==
    <<"2","B","0","0","0","0","1","1","0","A","4","4","2","7","3","0",":"," ","1",".","0"," ",
      "4",".","0"," ","3","9",".","2"," ","-","7",".","5"," ","-","0",".","2"," ","0",".","2",
      " ","-","0",".","0"," ","0",".","3"," ","3","2",".","4"," ">>

\* the documented pit line (src/unnamed/part_000:87)
PitLine ==
    <<"2","A","0","0","0","0","1","1","0","A","3","1","4","B","3","0",":"," ","1",".","0"," ",
      "3",".","8"," ","3","8",".","8"," ","1","4","2",".","5"," ","3",".","6"," ","0",".","1",
      " ","3",".","7"," ","9","1",".","7"," ","1","9","7",".","0"," ","P","I","D",":"," ","N",
      "O","R","M"," ","t","g","t",":","1","0","7",".","2"," ","e","r","r","o","r",":","7","7",
      ".","7"," ","d","r","i","v","e",":","2",".","0"," ","i","s","t","a","t","e",":","1","8",
      ".","2"," ","o","n",":","1"," ","o","f","f",":","0"," ","b","l","w","r",":","o","n">>

\* the pit line with the marker at index 10 replaced
PitLineXYZ ==
    <<"2","A","0","0","0","0","1","1","0","A","3","1","4","B","3","0",":"," ","1",".","0"," ",
      "3",".","8"," ","3","8",".","8"," ","1","4","2",".","5"," ","3",".","6"," ","0",".","1",
      " ","3",".","7"," ","9","1",".","7"," ","1","9","7",".","0"," ","X","Y","Z",":"," ","N",
      "O","R","M"," ","t","g","t",":","1","0","7",".","2"," ","e","r","r","o","r",":","7","7",
      ".","7"," ","d","r","i","v","e",":","2",".","0"," ","i","s","t","a","t","e",":","1","8",
      ".","2"," ","o","n",":","1"," ","o","f","f",":","0"," ","b","l","w","r",":","o","n">>

\* an 11-token record for the pit line's id
PitIdFood ==
    <<"2","A","0","0","0","0","1","1","0","A","3","1","4","B","3","0",":"," ","1"," ","2"," ",
      "3"," ","4"," ","5"," ","6"," ","7"," ","2","0",".","5"," ","9"," ","1","0">>

\* 11 tokens, id A
FoodA ==
    <<"A",":"," ","1"," ","2"," ","3"," ","4"," ","5"," ","6"," ","7"," ","1",".","5"," ","9",
      " ","1","0">>

\* 11 tokens, id A, another temperature
FoodA2 ==
    <<"A",":"," ","1"," ","2"," ","3"," ","4"," ","5"," ","6"," ","7"," ","-","0",".","2","5",
      " ","9"," ","1","0">>

\* more than 11 tokens with the PID: marker, id A
PitA ==
    <<"A",":"," ","1"," ","2"," ","3"," ","4"," ","5"," ","6"," ","7"," ","2",".","5"," ","9",
      " ","P","I","D",":"," ","o","n">>

\* 11 tokens, token 8 not a number
BadTempA ==
    <<"A",":"," ","1"," ","2"," ","3"," ","4"," ","5"," ","6"," ","7"," ","x"," ","9"," ","1",
      "0">>

\* marker right, token 8 not a number
BadPitTempA ==
    <<"A",":"," ","1"," ","2"," ","3"," ","4"," ","5"," ","6"," ","7"," ","1",".",".","5"," ",
      "9"," ","P","I","D",":"," ","o","n">>

\* more than 11 tokens, wrong marker
BadMarkA ==
    <<"A",":"," ","1"," ","2"," ","3"," ","4"," ","5"," ","6"," ","7"," ","2",".","5"," ","9",
      " ","B","A","D",":"," ","o","n">>

\* wrong marker and token 8 not a number
BadBothA ==
    <<"A",":"," ","1"," ","2"," ","3"," ","4"," ","5"," ","6"," ","7"," ","x"," ","9"," ","B",
      "A","D",":"," ","o","n">>

\* 11 tokens, first token without ':'
NoColon ==
    <<"A"," ","1"," ","2"," ","3"," ","4"," ","5"," ","6"," ","7"," ","1",".","5"," ","9"," ",
      "1","0">>

\* first token without ':', everything else wrong
NoColonBad ==
    <<"A"," ","1"," ","2"," ","3"," ","4"," ","5"," ","6"," ","7"," ","x"," ","9"," ","B","A",
      "D",":"," ","o","n">>

\* fewer than 11 tokens
ShortA ==
    <<"A",":"," ","1"," ","2"," ","3"," ","4"," ","5"," ","6"," ","7"," ","x">>

\* a double space makes an empty token: 11 tokens, token 8 is 7
TwoSpaces ==
    <<"A",":"," "," ","1"," ","2"," ","3"," ","4"," ","5"," ","6"," ","7"," ","3"," ","9">>

\* an empty line
Empty ==
    <<>>

Lines ==
    {FoodLine, FoodLineSp, PitLine, PitLineXYZ, PitIdFood, FoodA, FoodA2, PitA, BadTempA, BadPitTempA, BadMarkA, BadBothA, NoColon, NoColonBad, ShortA, TwoSpaces, Empty}

(***************************************************************************)
(* String helpers (package strings).                                       *)
(***************************************************************************)
At(parts, i) == parts[i + 1]

\* faulty variant of HasSuffix: the test is dropped
HasSuffixAlways(s, suffix) == TRUE

HasSuffix(s, suffix) ==
    /\ Len(s) >= Len(suffix)
    /\ SubSeq(s, Len(s) - Len(suffix) + 1, Len(s)) = suffix

\* faulty variant of TrimSuffix: nothing is trimmed
TrimSuffixNone(s, suffix) == s

TrimSuffix(s, suffix) ==
    IF HasSuffix(s, suffix) THEN SubSeq(s, 1, Len(s) - Len(suffix)) ELSE s

\* strings.Split(s, sep) for a one-character separator: n separators give
\* n+1 tokens, empty tokens included ("" gives one empty token).  The k-th
\* token lies between the k-th and the (k+1)-th cut, the cuts being the
\* separators' positions with 0 and Len(s)+1.
Cuts(s, sep) == {0, Len(s) + 1} \cup {i \in 1..Len(s) : s[i] = sep}

NthCut(c, k) == CHOOSE x \in c : Cardinality({y \in c : y < x}) = k - 1

Split(s, sep) ==
    LET c == Cuts(s, sep)
    IN  [k \in 1..(Cardinality(c) - 1) |->
            SubSeq(s, NthCut(c, k) + 1, NthCut(c, k + 1) - 1)]

(***************************************************************************)
(* strconv.ParseFloat(s, 32) on plain decimal tokens: an optional sign,    *)
(* digits with at most one '.', at least one digit.  Every other token of  *)
(* Lines is a syntax error (no token spells an exponent, a hexadecimal     *)
(* float, "inf" or "nan", which ParseFloat would also accept).  The result *)
(* is the float32 nearest to the decimal value (round half to even), held  *)
(* as mant * 2^exp with 2^23 <= mant < 2^24; the tokens have at most two   *)
(* fraction digits and a value below 2^24, which keeps the arithmetic in   *)
(* TLC's integers.                                                         *)
(***************************************************************************)
DigitChars == <<"0", "1", "2", "3", "4", "5", "6", "7", "8", "9">>

IsDigit(c) == \E i \in 1..10 : DigitChars[i] = c

DigitVal(c) == (CHOOSE i \in 1..10 : DigitChars[i] = c) - 1

RECURSIVE DecimalValue(_)
DecimalValue(ds) ==
    IF ds = <<>> THEN 0
    ELSE 10 * DecimalValue(SubSeq(ds, 1, Len(ds) - 1)) + DigitVal(ds[Len(ds)])

RECURSIVE Pow10(_)
Pow10(k) == IF k = 0 THEN 1 ELSE 10 * Pow10(k - 1)

RECURSIVE Normalize(_, _, _)
Normalize(x, d, e) ==
    IF x \div d >= 2^23 THEN <<x, e>> ELSE Normalize(2 * x, d, e - 1)

\* the float32 nearest to n/d (n >= 0, d > 0)
Float32(neg, n, d) ==
    IF n = 0 THEN [neg |-> neg, mant |-> 0, exp |-> 0]
    ELSE LET xe == Normalize(n, d, 0)
             q  == xe[1] \div d
             r  == xe[1] % d
             m  == IF 2 * r > d \/ (2 * r = d /\ q % 2 = 1) THEN q + 1 ELSE q
         IN  IF m = 2^24
             THEN [neg |-> neg, mant |-> 2^23, exp |-> xe[2] + 1]
             ELSE [neg |-> neg, mant |-> m, exp |-> xe[2]]

ParseFloat(s) ==
    LET signed == s /= <<>> /\ s[1] \in {"+", "-"}
        neg    == s /= <<>> /\ s[1] = "-"
        body   == IF signed THEN Tail(s) ELSE s
        dots   == {i \in 1..Len(body) : body[i] = "."}
        digits == SelectSeq(body, IsDigit)
        ok     == /\ \A i \in 1..Len(body) : IsDigit(body[i]) \/ body[i] = "."
                  /\ Cardinality(dots) <= 1
                  /\ digits /= <<>>
        frac   == IF dots = {} THEN 0 ELSE Len(body) - (CHOOSE i \in dots : TRUE)
    IN  IF ok
        THEN [err |-> FALSE, val |-> Float32(neg, DecimalValue(digits), Pow10(frac))]
        ELSE [err |-> TRUE, val |-> Float32(FALSE, 0, 1)]

VARIABLES
    \* streaming collector (src/unnamed/part_000)
    probes,         \* c.probes: id -> probe
    collectErrors,  \* c.collectErrors: failure category -> count
    spc,            \* where the ingestion goroutine of main stands
    parts,          \* reader's local parts: the tokens of the last line read
    probeType,      \* setTemp's local probeType when the last call returned
    setErr,         \* what the last call of setTemp returned
    nread,          \* lines reader has consumed
    conns,          \* connections dialed and not closed
    lock,           \* who holds the collector's mutex
    scrape,         \* each scrape request's call of Collect: where it stands
    \* polling collector (src/main.go)
    sensors,        \* c.sensors: id -> sensor
    blowers,        \* c.blowers: id -> blower
    collections,    \* c.collections
    failures,       \* c.failures
    ppc,            \* where the goroutine running c.loop stands
    resp,           \* what the last fetch of getStokerStatus met
    errCount,       \* doMetrics' local errCount
    calls,          \* calls of doMetrics made by c.loop
    cancelled,      \* ctx of c.loop is done
    installs,       \* fetches whose maps recordMetrics has installed
    pscrape         \* each scrape request's call of Collect: where it stands

svars == <<probes, collectErrors, spc, parts, probeType, setErr, nread, conns, lock, scrape>>

pvars == <<sensors, blowers, collections, failures, ppc, resp, errCount, calls, cancelled,
           installs, pscrape>>

vars == <<svars, pvars>>

\* a nil error
NoError == "nil"

(***************************************************************************)
(* The streaming collector's store.                                        *)
(***************************************************************************)
\* the count a failure category stands at (absent: 0)
ErrorCount(ce, t) == IF t \in DOMAIN ce THEN ce[t] ELSE 0

addError(ce, t) == (t :> ErrorCount(ce, t) + 1) @@ ce

\* faulty variant of StoreProbe: an update does not count the collection
StoreProbeNoCount(pr, id, pt, t) ==
    IF id \in DOMAIN pr
    THEN [pr EXCEPT ![id].temperature = t,
                    ![id].blower = "unknown"]
    ELSE (id :> [id |-> id, probeType |-> pt, temperature |-> t,
                 blower |-> "unknown", collections |-> 1]) @@ pr

\* faulty variant of StoreProbe: an update also overwrites the kind
StoreProbeRetype(pr, id, pt, t) ==
    IF id \in DOMAIN pr
    THEN [pr EXCEPT ![id].collections = @ + 1,
                    ![id].probeType = pt,
                    ![id].temperature = t,
                    ![id].blower = "unknown"]
    ELSE (id :> [id |-> id, probeType |-> pt, temperature |-> t,
                 blower |-> "unknown", collections |-> 1]) @@ pr

\* faulty variant of StoreProbe: an update keeps the old temperature
StoreProbeKeepTemp(pr, id, pt, t) ==
    IF id \in DOMAIN pr
    THEN [pr EXCEPT ![id].collections = @ + 1,
                    ![id].blower = "unknown"]
    ELSE (id :> [id |-> id, probeType |-> pt, temperature |-> t,
                 blower |-> "unknown", collections |-> 1]) @@ pr

\* the locked section of setTemp: create the probe or update it
StoreProbe(pr, id, pt, t) ==
    IF id \in DOMAIN pr
    THEN [pr EXCEPT ![id].collections = @ + 1,
                    ![id].temperature = t,
                    ![id].blower = "unknown"]
    ELSE (id :> [id |-> id, probeType |-> pt, temperature |-> t,
                 blower |-> "unknown", collections |-> 1]) @@ pr

(***************************************************************************)
(* setTemp: the record parser.                                             *)
(***************************************************************************)
PIDMarker == <<"P", "I", "D", ":">>

IdSuffix == <<":">>

\* faulty variant of TempToken: the Fahrenheit column
TempTokenF(ps) == At(ps, 9)

\* the token holding the temperature in C
TempToken(ps) == At(ps, 8)

\* faulty variant of ProbeKind: the token count of a food record off by one
ProbeKindTen(ps) ==
    IF Len(ps) = 10 THEN "food"
    ELSE IF Len(ps) > 11
         THEN IF At(ps, 10) /= PIDMarker THEN "unknownProbe" ELSE "pit"
         ELSE "status"

\* the switch on len(parts): the probe type, or why there is none
ProbeKind(ps) ==
    IF Len(ps) = 11 THEN "food"
    ELSE IF Len(ps) > 11
         THEN IF At(ps, 10) /= PIDMarker THEN "unknownProbe" ELSE "pit"
         ELSE "status"

SetTempResult(pr, ce, err, pt) ==
    [probes |-> pr, collectErrors |-> ce, err |-> err, probeType |-> pt]

\* faulty variant of setTemp: the temperature is parsed before the marker
\* is looked at
setTempParseFirst(ps, pr, ce) ==
    IF ~HasSuffix(At(ps, 0), IdSuffix)
    THEN SetTempResult(pr, ce, NoError, "")
    ELSE LET id   == TrimSuffix(At(ps, 0), IdSuffix)
             kind == ProbeKind(ps)
         IN  IF kind = "status"
             THEN SetTempResult(pr, ce, NoError, "")
             ELSE LET f == ParseFloat(TempToken(ps))
                  IN  IF f.err
                      THEN SetTempResult(pr, addError(ce, "parseFloat"),
                                         "failed to parse temperature", kind)
                      ELSE IF kind = "unknownProbe"
                      THEN SetTempResult(pr, addError(ce, "unknownProbe"),
                                         "unknown probe type", "")
                      ELSE SetTempResult(StoreProbe(pr, id, kind, f.val), ce,
                                         NoError, kind)

setTemp(ps, pr, ce) ==
    IF ~HasSuffix(At(ps, 0), IdSuffix)
    THEN SetTempResult(pr, ce, NoError, "")
    ELSE LET id   == TrimSuffix(At(ps, 0), IdSuffix)
             kind == ProbeKind(ps)
         IN  IF kind = "unknownProbe"
             THEN SetTempResult(pr, addError(ce, "unknownProbe"),
                                "unknown probe type", "")
             ELSE IF kind = "status"
             THEN SetTempResult(pr, ce, NoError, "")
             ELSE LET f == ParseFloat(TempToken(ps))
                  IN  IF f.err
                      THEN SetTempResult(pr, addError(ce, "parseFloat"),
                                         "failed to parse temperature", kind)
                      ELSE SetTempResult(StoreProbe(pr, id, kind, f.val), ce,
                                         NoError, kind)

(***************************************************************************)
(* The collector's mutex and the metrics of an export.  A critical section *)
(* that no other goroutine can observe half-way is one step; Collect of    *)
(* the streaming collector keeps the mutex over several steps.             *)
(***************************************************************************)
Scrapers == 1..NumScrapers

\* no goroutine holds the mutex
Unheld == 0

\* faulty variant of Lock: it does not wait for the holder
LockNoWait(l) == TRUE

\* c.Lock() returns only when no goroutine holds the mutex
Lock(l) == l = Unheld

\* a byte that is not valid UTF-8 wherever it stands in a string
InvalidByte == "\\xff"

ValidUTF8(str) == \A i \in 1..Len(str) : str[i] /= InvalidByte

\* the descriptors newFuncMetric builds, by name: their variable labels and
\* the positions of the label values that are bytes the device sent (the
\* other values are literals of the program, cleaned names, or strings that
\* encoding/json decoded, which are valid UTF-8)
Descs ==
    [ probe_status            |-> [labels |-> <<"type", "id", "blower">>, bytes |-> {2}],
      probe_collections_total |-> [labels |-> <<"type", "id">>, bytes |-> {2}],
      collect_failures_total  |-> [labels |-> <<"type">>, bytes |-> {}],
      sensor_temperature      |-> [labels |-> <<"id", "name", "blower">>, bytes |-> {}],
      blower_state            |-> [labels |-> <<"id", "name">>, bytes |-> {}],
      collections_total       |-> [labels |-> <<>>, bytes |-> {}],
      failures_total          |-> [labels |-> <<>>, bytes |-> {}] ]

Metric(desc, value, labelValues) ==
    [desc |-> desc, value |-> value, labelValues |-> labelValues]

NoMetric == Metric("", 0, <<>>)

\* faulty variant of NewConstMetric: the label values are not validated
NewConstMetricUnchecked(desc, value, labelValues) ==
    [err |-> FALSE, m |-> Metric(desc, value, labelValues)]

\* prometheus.NewConstMetric: an error when the label values are not as many
\* as the descriptor's labels or one of them is not valid UTF-8
NewConstMetric(desc, value, labelValues) ==
    IF \/ Len(labelValues) /= Len(Descs[desc].labels)
       \/ \E i \in Descs[desc].bytes : ~ValidUTF8(labelValues[i])
    THEN [err |-> TRUE, m |-> NoMetric]
    ELSE [err |-> FALSE, m |-> Metric(desc, value, labelValues)]

\* a scrape request that has not called Collect of the streaming collector
IdleScrape ==
    [pc |-> "idle", errs |-> {}, ids |-> {}, cur |-> <<>>, m |-> NoMetric, sent |-> {}]

\* a scrape request that has not called Collect of the polling collector
IdlePollScrape == [pc |-> "idle", metrics |-> <<>>, n |-> 0]

(***************************************************************************)
(* The ingestion goroutine of main and reader.                             *)
(***************************************************************************)
Fails == ErrorCount(collectErrors, "dial") + ErrorCount(collectErrors, "readLine")

\* net.DialTimeout succeeds: reader starts on the connection.  The
\* goroutine defers s.Close() to the return of its function, which has no
\* return: no step closes a connection
DialOK ==
    /\ spc = "dial"
    /\ spc' = "read"
    /\ conns' = conns + 1
    /\ UNCHANGED <<probes, collectErrors, parts, probeType, setErr, nread, lock, scrape>>
    /\ UNCHANGED pvars

\* net.DialTimeout fails: count it, then sleep
DialFail ==
    /\ spc = "dial"
    /\ Fails < MaxFails
    /\ Lock(lock)
    /\ collectErrors' = addError(collectErrors, "dial")
    /\ spc' = "sleep"
    /\ UNCHANGED <<probes, parts, probeType, setErr, nread, conns, lock, scrape>>
    /\ UNCHANGED pvars

\* time.Sleep(time.Second) is over: dial again
Sleep ==
    /\ spc = "sleep"
    /\ spc' = "dial"
    /\ UNCHANGED <<probes, collectErrors, parts, probeType, setErr, nread, conns, lock, scrape>>
    /\ UNCHANGED pvars

\* strings.Split(string(line), " ") of every line the device may send
Tokens == [line \in Lines |-> Split(line, " ")]

\* one iteration of reader's loop: a line of the pool is read, split and
\* given to setTemp (every line fits reader's 1024-byte buffer, so ReadLine
\* returns it whole); setTemp takes the mutex, itself or in addError, on
\* every path that changes the store and on no other
ReadLineFrom(pool, tokens) ==
    /\ spc = "read"
    /\ nread < MaxLines
    /\ \E line \in pool :
       \E ps \in {tokens[line]} :
       \E r \in {setTemp(ps, probes, collectErrors)} :
              /\ (r.probes /= probes \/ r.collectErrors /= collectErrors) => Lock(lock)
              /\ parts' = ps
              /\ probes' = r.probes
              /\ collectErrors' = r.collectErrors
              /\ probeType' = r.probeType
              /\ setErr' = r.err
    /\ nread' = nread + 1
    /\ spc' = "read"
    /\ UNCHANGED <<conns, lock, scrape>>
    /\ UNCHANGED pvars

ReadLine == ReadLineFrom(Lines, Tokens)

\* ReadLine fails: reader counts it and returns, the goroutine dials again
ReadErr ==
    /\ spc = "read"
    /\ Fails < MaxFails
    /\ Lock(lock)
    /\ collectErrors' = addError(collectErrors, "readLine")
    /\ spc' = "dial"
    /\ UNCHANGED <<probes, parts, probeType, setErr, nread, conns, lock, scrape>>
    /\ UNCHANGED pvars

\* the collector newCollector returns, with the ingestion goroutine at pc
\* ("off": this program is not the one that runs)
InitStreamAt(pc) ==
    /\ probes = <<>>
    /\ collectErrors = <<>>
    /\ spc = pc
    /\ parts = <<>>
    /\ probeType = ""
    /\ setErr = NoError
    /\ nread = 0
    /\ conns = 0
    /\ lock = Unheld
    /\ scrape = [e \in Scrapers |-> IdleScrape]

InitStream == InitStreamAt("dial")

NextStream == DialOK \/ DialFail \/ Sleep \/ ReadLine \/ ReadErr

(***************************************************************************)
(* Collect of the streaming collector, called for each scrape request.     *)
(* Each range loop visits the keys of its map in an order Go leaves open.  *)
(***************************************************************************)
\* c.Lock() at the head of Collect; the unlock is deferred to its return
CollectLock(e) ==
    /\ spc /= "off"
    /\ scrape[e].pc = "idle"
    /\ Lock(lock)
    /\ lock' = e
    /\ scrape' = [scrape EXCEPT ![e] =
                     [pc |-> "range", errs |-> DOMAIN collectErrors,
                      ids |-> DOMAIN probes, cur |-> <<>>, m |-> NoMetric, sent |-> {}]]
    /\ UNCHANGED <<probes, collectErrors, spc, parts, probeType, setErr, nread, conns>>
    /\ UNCHANGED pvars

\* one iteration of the loop over c.collectErrors, up to the channel send
CollectError(e) ==
    /\ scrape[e].pc = "range"
    /\ \E k \in scrape[e].errs :
       \E out \in {NewConstMetric("collect_failures_total", collectErrors[k], <<k>>)} :
          scrape' = [scrape EXCEPT ![e].errs = @ \ {k},
                                   ![e].m = out.m,
                                   ![e].pc = IF out.err THEN "range" ELSE "sendError"]
    /\ UNCHANGED <<probes, collectErrors, spc, parts, probeType, setErr, nread, conns, lock>>
    /\ UNCHANGED pvars

\* one iteration of the loop over c.probes, up to the send of the probe's
\* gauge; when the gauge cannot be built the loop goes on to the counter
CollectProbe(e) ==
    /\ scrape[e].pc = "range"
    /\ scrape[e].errs = {}
    /\ \E id \in scrape[e].ids :
       \E v \in {probes[id]} :
       \E out \in {NewConstMetric("probe_status", v.temperature,
                                  <<v.probeType, v.id, v.blower>>)} :
          scrape' = [scrape EXCEPT ![e].ids = @ \ {id},
                                   ![e].cur = id,
                                   ![e].m = out.m,
                                   ![e].pc = IF out.err THEN "collections" ELSE "sendProbe"]
    /\ UNCHANGED <<probes, collectErrors, spc, parts, probeType, setErr, nread, conns, lock>>
    /\ UNCHANGED pvars

\* the same iteration, from the probe's gauge up to the send of its counter
CollectCollections(e) ==
    /\ scrape[e].pc = "collections"
    /\ \E v \in {probes[scrape[e].cur]} :
       \E out \in {NewConstMetric("probe_collections_total", v.collections,
                                  <<v.probeType, v.id>>)} :
          scrape' = [scrape EXCEPT ![e].m = out.m,
                                   ![e].pc = IF out.err THEN "range" ELSE "sendCollections"]
    /\ UNCHANGED <<probes, collectErrors, spc, parts, probeType, setErr, nread, conns, lock>>
    /\ UNCHANGED pvars

\* ch <- m: the consumer takes the metric Collect is blocked on
Send(e) ==
    /\ scrape[e].pc \in {"sendError", "sendProbe", "sendCollections"}
    /\ scrape' = [scrape EXCEPT ![e].sent = @ \cup {scrape[e].m},
                                ![e].m = NoMetric,
                                ![e].pc = IF scrape[e].pc = "sendProbe" THEN "collections"
                                                                        ELSE "range"]
    /\ UNCHANGED <<probes, collectErrors, spc, parts, probeType, setErr, nread, conns, lock>>
    /\ UNCHANGED pvars

\* both loops are over: Collect returns, which runs the deferred c.Unlock()
CollectReturn(e) ==
    /\ scrape[e].pc = "range"
    /\ scrape[e].errs = {}
    /\ scrape[e].ids = {}
    /\ lock' = Unheld
    /\ scrape' = [scrape EXCEPT ![e] = IdleScrape]
    /\ UNCHANGED <<probes, collectErrors, spc, parts, probeType, setErr, nread, conns>>
    /\ UNCHANGED pvars

\* a food record whose id is one byte that is not valid UTF-8
FoodFF ==
    <<InvalidByte,":"," ","1"," ","2"," ","3"," ","4"," ","5"," ","6"," ","7"," ","7",".","5",
      " ","9"," ","1","0">>

\* the lines the device sends while scrape requests are served
ExportLines == {FoodA, FoodA2, PitIdFood, FoodFF}

ExportTokens == [line \in ExportLines |-> Split(line, " ")]

ReadLineExport == ReadLineFrom(ExportLines, ExportTokens)

NextStreamExport ==
    \/ DialOK \/ DialFail \/ Sleep \/ ReadLineExport \/ ReadErr
    \/ \E e \in Scrapers :
          \/ CollectLock(e) \/ CollectError(e) \/ CollectProbe(e)
          \/ CollectCollections(e) \/ Send(e) \/ CollectReturn(e)

(***************************************************************************)
(* The polling collector (src/main.go).  Sensor and blower ids are opaque  *)
(* strings; names are character sequences, which cleanName rewrites.  A    *)
(* *string is a sequence of at most one string: <<>> is nil.               *)
(***************************************************************************)
StatusOK == 200

UpperChars ==
    <<"A", "B", "C", "D", "E", "F", "G", "H", "I", "J", "K", "L", "M",
      "N", "O", "P", "Q", "R", "S", "T", "U", "V", "W", "X", "Y", "Z">>

LowerChars ==
    <<"a", "b", "c", "d", "e", "f", "g", "h", "i", "j", "k", "l", "m",
      "n", "o", "p", "q", "r", "s", "t", "u", "v", "w", "x", "y", "z">>

\* strings.ToLower on one character
ToLower(c) ==
    IF \E i \in 1..26 : UpperChars[i] = c
    THEN LowerChars[CHOOSE i \in 1..26 : UpperChars[i] = c]
    ELSE c

\* a character nameLabelRegex ("[^a-z0-9_]+") leaves in place
IsLabelChar(c) == (\E i \in 1..26 : LowerChars[i] = c) \/ IsDigit(c) \/ c = "_"

cleanName(in) ==
    LET replaced == [i \in 1..Len(in) |-> IF in[i] = " " THEN "_" ELSE in[i]]
        lowered  == [i \in 1..Len(in) |-> ToLower(replaced[i])]
    IN  SelectSeq(lowered, IsLabelChar)

\* errors.Wrap / errors.Wrapf of github.com/pkg/errors: nil when err is nil
Wrap(err, message) == IF err = NoError THEN NoError ELSE message

(***************************************************************************)
(* What one fetch can meet: client.Do fails; a response with a status and, *)
(* for status 200, a body that cannot be read, is not JSON, or decodes     *)
(* into sensors and blowers (a document without them decodes into none).   *)
(***************************************************************************)
SeqsUpTo(S, n) == UNION {[1..k -> S] : k \in 0..n}

SensorEntries ==
    { [ID |-> "", Name |-> <<"x">>, Temp |-> 5, Blower |-> <<>>],
      [ID |-> "s1", Name |-> <<"P", "i", "t", " ", "1">>, Temp |-> 10, Blower |-> <<"b1">>],
      [ID |-> "s1", Name |-> <<"p", "i", "t", "_", "1">>, Temp |-> 30, Blower |-> <<>>],
      [ID |-> "s2", Name |-> <<"F", "o", "o", "d", "-", "2", "!">>, Temp |-> 20, Blower |-> <<>>] }

BlowerEntries ==
    { [ID |-> "", Name |-> <<"y">>, On |-> 1],
      [ID |-> "b1", Name |-> <<"B", "i", "g", " ", "E", "g", "g">>, On |-> 1] }

Response(kind, status, body, ss, bs) ==
    [kind |-> kind, status |-> status, body |-> body, sensors |-> ss, blowers |-> bs]

NoResponse == Response("none", 0, "", <<>>, <<>>)

Responses ==
    {Response("doError", 0, "", <<>>, <<>>)}
    \cup {Response("http", st, "", <<>>, <<>>) : st \in {404, 500}}
    \cup {Response("http", StatusOK, b, <<>>, <<>>) : b \in {"readError", "notJSON"}}
    \cup {Response("http", StatusOK, "json", ss, bs) :
            ss \in SeqsUpTo(SensorEntries, MaxSensors),
            bs \in SeqsUpTo(BlowerEntries, MaxBlowers)}

\* the *stokerResponse getStokerStatus returns
NilStatus == [nil |-> TRUE, sensors |-> <<>>, blowers |-> <<>>]

Status(ss, bs) == [nil |-> FALSE, sensors |-> ss, blowers |-> bs]

\* faulty variant of getStokerStatus: the payload is not validated
getStokerStatusUnvalidated(r) ==
    LET err == IF r.kind = "doError" THEN "client.Do failed" ELSE NoError
    IN  IF err /= NoError
        THEN [s |-> NilStatus, err |-> Wrap(err, "http request failed")]
        ELSE IF r.status /= StatusOK
        THEN [s |-> NilStatus, err |-> Wrap(err, "unexpected HTTP status")]
        ELSE IF r.body = "readError"
        THEN [s |-> NilStatus,
              err |-> Wrap("read failed", "failed to read response body")]
        ELSE IF r.body = "notJSON"
        THEN [s |-> NilStatus,
              err |-> Wrap("syntax error", "failed to unmarshal response body")]
        ELSE [s |-> Status(r.sensors, r.blowers), err |-> NoError]

getStokerStatus(r) ==
    LET err == IF r.kind = "doError" THEN "client.Do failed" ELSE NoError
    IN  IF err /= NoError
        THEN [s |-> NilStatus, err |-> Wrap(err, "http request failed")]
        ELSE IF r.status /= StatusOK
        THEN [s |-> NilStatus, err |-> Wrap(err, "unexpected HTTP status")]
        ELSE IF r.body = "readError"
        THEN [s |-> NilStatus,
              err |-> Wrap("read failed", "failed to read response body")]
        ELSE IF r.body = "notJSON"
        THEN [s |-> NilStatus,
              err |-> Wrap("syntax error", "failed to unmarshal response body")]
        ELSE IF Len(r.sensors) = 0
        THEN [s |-> NilStatus, err |-> "no sensors found"]
        ELSE [s |-> Status(r.sensors, r.blowers), err |-> NoError]

\* faulty variant of EntryMap: entries with an empty id are stored too
EntryMapKeepEmpty(list) ==
    LET ids == {list[i].ID : i \in 1..Len(list)}
    IN  [id \in ids |->
            LET last == CHOOSE i \in 1..Len(list) :
                           /\ list[i].ID = id
                           /\ \A j \in 1..Len(list) : list[j].ID = id => j <= i
            IN  [list[last] EXCEPT !.Name = cleanName(@)]]

\* the map a loop of recordMetrics builds from a list: entries with an empty
\* id are skipped, a later entry replaces an earlier one with the same id,
\* names are cleaned
EntryMap(list) ==
    LET ids == {list[i].ID : i \in 1..Len(list)} \ {""}
    IN  [id \in ids |->
            LET last == CHOOSE i \in 1..Len(list) :
                           /\ list[i].ID = id
                           /\ \A j \in 1..Len(list) : list[j].ID = id => j <= i
            IN  [list[last] EXCEPT !.Name = cleanName(@)]]

\* recordMetrics up to its locked section: the maps it is about to install,
\* the error it returns instead, or the nil dereference of s.Stoker when
\* getStokerStatus returns neither a status nor an error
recordMetrics(r) ==
    LET g == getStokerStatus(r)
    IN  IF g.err /= NoError
        THEN [panic |-> FALSE, err |-> Wrap(g.err, "failed to get stoker status"),
              sensors |-> <<>>, blowers |-> <<>>]
        ELSE IF g.s.nil
        THEN [panic |-> TRUE, err |-> NoError, sensors |-> <<>>, blowers |-> <<>>]
        ELSE [panic |-> FALSE, err |-> NoError,
              sensors |-> EntryMap(g.s.sensors), blowers |-> EntryMap(g.s.blowers)]

\* recordMetrics for every response the fetch can meet
Recorded == [r \in Responses |-> recordMetrics(r)]

\* faulty variant of Install: the new entries are merged into the old map
InstallMerged(old, new) == new @@ old

\* the locked section of recordMetrics: "just set to the new values. we do
\* not need to merge"
Install(old, new) == new

(***************************************************************************)
(* c.loop and doMetrics.                                                   *)
(***************************************************************************)
\* c.loop starts: its first statement calls doMetrics
LoopStart ==
    /\ ppc = "start"
    /\ ppc' = "recordMetrics"
    /\ calls' = calls + 1
    /\ UNCHANGED <<sensors, blowers, collections, failures, resp, errCount, cancelled, installs, pscrape>>
    /\ UNCHANGED svars

\* doMetrics, first half: c.recordMetrics() fetches (the answer is one of
\* the pool) and, on success, replaces the maps in one locked section; a
\* panic in this goroutine ends the process
RecordMetricsFrom(pool) ==
    /\ ppc = "recordMetrics"
    /\ \E r \in pool :
       \E out \in {Recorded[r]} :
          /\ resp' = r
          /\ IF out.panic
             THEN /\ ppc' = "panicked"
                  /\ UNCHANGED <<sensors, blowers, errCount, installs>>
             ELSE IF out.err /= NoError
             THEN /\ ppc' = "count"
                  /\ errCount' = 1
                  /\ UNCHANGED <<sensors, blowers, installs>>
             ELSE /\ ppc' = "count"
                  /\ errCount' = 0
                  /\ sensors' = Install(sensors, out.sensors)
                  /\ blowers' = Install(blowers, out.blowers)
                  /\ installs' = installs + 1
    /\ UNCHANGED <<collections, failures, calls, cancelled, pscrape>>
    /\ UNCHANGED svars

RecordMetrics == RecordMetricsFrom(Responses)

\* faulty variant of Count: every collection is counted as a failure
CountAsFailure ==
    /\ ppc = "count"
    /\ collections' = collections + 1
    /\ failures' = failures + 1
    /\ ppc' = "select"
    /\ UNCHANGED <<sensors, blowers, resp, errCount, calls, cancelled, installs, pscrape>>
    /\ UNCHANGED svars

\* doMetrics, second half: the counters, under the lock
Count ==
    /\ ppc = "count"
    /\ collections' = collections + 1
    /\ failures' = failures + errCount
    /\ ppc' = "select"
    /\ UNCHANGED <<sensors, blowers, resp, errCount, calls, cancelled, installs, pscrape>>
    /\ UNCHANGED svars

\* select takes t.C: the next collection
Tick ==
    /\ ppc = "select"
    /\ calls < MaxPolls
    /\ ppc' = "recordMetrics"
    /\ calls' = calls + 1
    /\ UNCHANGED <<sensors, blowers, collections, failures, resp, errCount, cancelled, installs, pscrape>>
    /\ UNCHANGED svars

\* the context given to c.loop is cancelled
Cancel ==
    /\ ppc \notin {"off", "panicked"}
    /\ ~cancelled
    /\ cancelled' = TRUE
    /\ UNCHANGED <<sensors, blowers, collections, failures, ppc, resp, errCount, calls,
                   installs, pscrape>>
    /\ UNCHANGED svars

\* select takes ctx.Done(): c.loop returns
LoopReturn ==
    /\ ppc = "select"
    /\ cancelled
    /\ ppc' = "returned"
    /\ UNCHANGED <<sensors, blowers, collections, failures, resp, errCount, calls, cancelled,
                   installs, pscrape>>
    /\ UNCHANGED svars

\* the collector newCollector returns, with c.loop's goroutine at pc
\* ("off": this program is not the one that runs)
InitPollAt(pc) ==
    /\ sensors = <<>>
    /\ blowers = <<>>
    /\ collections = 0
    /\ failures = 0
    /\ ppc = pc
    /\ resp = NoResponse
    /\ errCount = 0
    /\ calls = 0
    /\ cancelled = FALSE
    /\ installs = 0
    /\ pscrape = [e \in Scrapers |-> IdlePollScrape]

InitPoll == InitPollAt("start")

NextPoll == LoopStart \/ RecordMetrics \/ Count \/ Tick \/ Cancel \/ LoopReturn

(***************************************************************************)
(* createMetrics and Collect of the polling collector.                     *)
(***************************************************************************)
\* the orders in which a range loop can visit the keys of a map
Orders(keys) ==
    {o \in [1..Cardinality(keys) -> keys] : \A i, j \in DOMAIN o : o[i] = o[j] => i = j}

\* metrics = append(metrics, m) when err == nil, the log line otherwise
AppendMetric(metrics, out) == IF out.err THEN metrics ELSE Append(metrics, out.m)

\* the loop over c.sensors, visiting the first k keys of order
RECURSIVE SensorMetrics(_, _, _, _)
SensorMetrics(metrics, ss, order, k) ==
    IF k = 0
    THEN metrics
    ELSE LET v == ss[order[k]]
             blower == IF v.Blower /= <<>> THEN v.Blower[1] ELSE ""
         IN  AppendMetric(SensorMetrics(metrics, ss, order, k - 1),
                          NewConstMetric("sensor_temperature", v.Temp,
                                         <<v.ID, v.Name, blower>>))

\* the loop over c.blowers, visiting the first k keys of order
RECURSIVE BlowerMetrics(_, _, _, _)
BlowerMetrics(metrics, bs, order, k) ==
    IF k = 0
    THEN metrics
    ELSE LET v == bs[order[k]]
         IN  AppendMetric(BlowerMetrics(metrics, bs, order, k - 1),
                          NewConstMetric("blower_state", v.On, <<v.ID, v.Name>>))

\* faulty variant of createMetrics: the loop over c.blowers is missing
createMetricsNoBlowers(f, c, ss, bs, sorder, border) ==
    SensorMetrics(
        AppendMetric(AppendMetric(<<>>, NewConstMetric("failures_total", f, <<>>)),
                     NewConstMetric("collections_total", c, <<>>)),
        ss, sorder, Len(sorder))

\* the body of createMetrics, all of it under the mutex: the two counters,
\* then a gauge for each sensor, then a gauge for each blower
createMetrics(f, c, ss, bs, sorder, border) ==
    BlowerMetrics(
        SensorMetrics(
            AppendMetric(AppendMetric(<<>>, NewConstMetric("failures_total", f, <<>>)),
                         NewConstMetric("collections_total", c, <<>>)),
            ss, sorder, Len(sorder)),
        bs, border, Len(border))

\* Collect calls createMetrics, which locks, builds the list and unlocks
CreateMetrics(e) ==
    /\ ppc \notin {"off", "panicked"}
    /\ pscrape[e].pc = "idle"
    /\ \E sorder \in Orders(DOMAIN sensors), border \in Orders(DOMAIN blowers) :
          pscrape' = [pscrape EXCEPT ![e] =
                         [pc |-> "send", n |-> 0,
                          metrics |-> createMetrics(failures, collections, sensors,
                                                    blowers, sorder, border)]]
    /\ UNCHANGED <<sensors, blowers, collections, failures, ppc, resp, errCount, calls,
                   cancelled, installs>>
    /\ UNCHANGED svars

\* ch <- m: the consumer takes the next metric of the list
PollSend(e) ==
    /\ ppc \notin {"off", "panicked"}
    /\ pscrape[e].pc = "send"
    /\ pscrape[e].n < Len(pscrape[e].metrics)
    /\ pscrape' = [pscrape EXCEPT ![e].n = @ + 1]
    /\ UNCHANGED <<sensors, blowers, collections, failures, ppc, resp, errCount, calls,
                   cancelled, installs>>
    /\ UNCHANGED svars

\* the list is through: Collect returns
PollCollectReturn(e) ==
    /\ ppc \notin {"off", "panicked"}
    /\ pscrape[e].pc = "send"
    /\ pscrape[e].n = Len(pscrape[e].metrics)
    /\ pscrape' = [pscrape EXCEPT ![e] = IdlePollScrape]
    /\ UNCHANGED <<sensors, blowers, collections, failures, ppc, resp, errCount, calls,
                   cancelled, installs>>
    /\ UNCHANGED svars

Pit1 ==
    [ID |-> "s1", Name |-> <<"P", "i", "t", " ", "1">>, Temp |-> 10, Blower |-> <<"b1">>]

Pit1Renamed ==
    [ID |-> "s1", Name |-> <<"p", "i", "t", "_", "1">>, Temp |-> 30, Blower |-> <<>>]

Food2 ==
    [ID |-> "s2", Name |-> <<"F", "o", "o", "d", "-", "2", "!">>, Temp |-> 20, Blower |-> <<>>]

BigEgg == [ID |-> "b1", Name |-> <<"B", "i", "g", " ", "E", "g", "g">>, On |-> 1]

\* the answers the device gives while scrape requests are served
ExportResponses ==
    { Response("doError", 0, "", <<>>, <<>>),
      Response("http", 500, "", <<>>, <<>>),
      Response("http", StatusOK, "json", <<Pit1>>, <<BigEgg>>),
      Response("http", StatusOK, "json", <<Food2, Pit1Renamed>>, <<>>) }

RecordMetricsExport == RecordMetricsFrom(ExportResponses)

NextPollExport ==
    \/ LoopStart \/ RecordMetricsExport \/ Count \/ Tick \/ Cancel \/ LoopReturn
    \/ \E e \in Scrapers : CreateMetrics(e) \/ PollSend(e) \/ PollCollectReturn(e)


(***************************************************************************)
(* The two programs: each specification runs one collector and leaves the  *)
(* other's variables at their initial values.                              *)
(***************************************************************************)
Init == InitStream /\ InitPoll

SpecStream == Init /\ [][NextStream]_vars

SpecPoll == Init /\ [][NextPoll]_vars

\* the polling collector with the scheduler's guarantees: a goroutine that
\* can take a step takes one (doMetrics runs on, its HTTP client gives up
\* after 10 seconds), and select, which picks at random among the ready
\* cases, does not pass over ctx.Done() forever
FairSpecPoll ==
    /\ SpecPoll
    /\ WF_vars(LoopStart)
    /\ WF_vars(RecordMetrics)
    /\ WF_vars(Count)
    /\ SF_vars(LoopReturn)

\* either program, serving scrape requests while it collects
InitExport ==
    \/ InitStreamAt("dial") /\ InitPollAt("off")
    \/ InitStreamAt("off") /\ InitPollAt("start")

NextExport == NextStreamExport \/ NextPollExport

SpecExport == InitExport /\ [][NextExport]_vars


(***************************************************************************)
(* Properties of the streaming collector (checked under SpecStream).       *)
(* After a step of ReadLine, parts holds the tokens of the line read, and  *)
(* only ReadLine changes nread.                                            *)
(***************************************************************************)
EndsWithColon(t) == Len(t) >= 1 /\ t[Len(t)] = ":"

WithoutLast(t) == SubSeq(t, 1, Len(t) - 1)

LineRead(line) == nread > 0 /\ parts = Tokens[line]

ReadsLine(line) == nread' = nread + 1 /\ parts' = Tokens[line]

PitId == SubSeq(PitLine, 1, 16)

FoodId == SubSeq(FoodLine, 1, 16)

\* float32 values: mant * 2^exp
F32_197_0 == [neg |-> FALSE, mant |-> 12910592, exp |-> -16]

F32_91_7 == [neg |-> FALSE, mant |-> 12019302, exp |-> -17]

F32_32_4 == [neg |-> FALSE, mant |-> 8493466, exp |-> -18]

F32_0_3 == [neg |-> FALSE, mant |-> 10066330, exp |-> -25]

F32_1_5 == [neg |-> FALSE, mant |-> 12582912, exp |-> -23]

F32_2_5 == [neg |-> FALSE, mant |-> 10485760, exp |-> -22]

F32_m0_25 == [neg |-> TRUE, mant |-> 8388608, exp |-> -25]

\* C2 as stated: after the documented pit line is ingested, entity
\* 2A0000110A314B30 is stored with kind pit and temperature 197.0.
C2_PitLineStores197 ==
    LineRead(PitLine) =>
        /\ PitId \in DOMAIN probes
        /\ probes[PitId].probeType = "pit"
        /\ probes[PitId].temperature = F32_197_0

\* C2 amended: after the documented pit line (19 tokens) is ingested, the
\* record is classified pit without error and entity 2A0000110A314B30 is
\* stored with the temperature of the token at index 8, 91.7 (to float32),
\* not the 197.0 of index 9; its kind is pit when this record created it.
C2_PitLineStoresIndex8 ==
    LineRead(PitLine) =>
        /\ Len(parts) = 19
        /\ setErr = NoError
        /\ probeType = "pit"
        /\ PitId \in DOMAIN probes
        /\ probes[PitId].id = PitId
        /\ probes[PitId].temperature = F32_91_7
        /\ probes[PitId].collections = 1 => probes[PitId].probeType = "pit"

C2_Witness ==
    /\ LineRead(PitLine)
    /\ PitId \in DOMAIN probes
    /\ probes[PitId].collections = 1
    /\ probes[PitId].probeType = "pit"

\* C3 as stated: the documented food line counts 11 tokens and, once
\* ingested, entity 2B0000110A442730 is stored with kind food and
\* temperature 32.4.
C3_FoodLineStores32 ==
    LineRead(FoodLine) =>
        /\ Len(parts) = 11
        /\ FoodId \in DOMAIN probes
        /\ probes[FoodId].probeType = "food"
        /\ probes[FoodId].temperature = F32_32_4

\* C3 amended: the documented food line split on single spaces has 10
\* tokens and is ignored as a status line (no entity created or changed, no
\* failure counted, no error); with one trailing space it has 11 tokens, is
\* classified food, and 2B0000110A442730 is stored with the temperature of
\* the token at index 8, 0.3 (to float32), with kind food when created.
C3_FoodLineTenTokensIgnored ==
    [][ /\ ReadsLine(FoodLine) =>
            /\ Len(parts') = 10
            /\ probes' = probes
            /\ collectErrors' = collectErrors
            /\ setErr' = NoError
        /\ ReadsLine(FoodLineSp) =>
            /\ Len(parts') = 11
            /\ probeType' = "food"
            /\ FoodId \in DOMAIN probes'
            /\ probes'[FoodId].temperature = F32_0_3
            /\ FoodId \notin DOMAIN probes =>
                  /\ probes'[FoodId].probeType = "food"
                  /\ probes'[FoodId].collections = 1
      ]_vars

C3_Witness ==
    /\ LineRead(FoodLine)
    /\ Len(parts) = 10
    /\ FoodId \notin DOMAIN probes
    /\ nread = 1

\* C4: whenever the last line read has a first token ending in ':', a
\* numeric token at index 8 and either exactly 11 tokens or more than 11
\* with "PID:" at index 10, setTemp classified it food (11 tokens) or pit
\* (more) without error, and the entity named by the first token without
\* its ':' holds the parsed value of the token at index 8; the entity has
\* the record's kind when the record created it.
C4_ClassifiedAndStored ==
    /\ ( /\ nread > 0
         /\ EndsWithColon(parts[1])
         /\ Len(parts) >= 11
         /\ ~ParseFloat(parts[9]).err
         /\ (Len(parts) = 11 \/ parts[11] = PIDMarker) )
       => LET id == WithoutLast(parts[1])
          IN  /\ setErr = NoError
              /\ probeType = (IF Len(parts) = 11 THEN "food" ELSE "pit")
              /\ id \in DOMAIN probes
              /\ probes[id].id = id
              /\ probes[id].temperature = ParseFloat(parts[9]).val
              /\ probes[id].collections = 1 => probes[id].probeType = probeType
    /\ LineRead(FoodA) =>
          /\ probeType = "food"
          /\ <<"A">> \in DOMAIN probes
          /\ probes[<<"A">>].temperature = F32_1_5
    /\ LineRead(PitA) =>
          /\ probeType = "pit"
          /\ <<"A">> \in DOMAIN probes
          /\ probes[<<"A">>].temperature = F32_2_5

C4_Witness ==
    /\ LineRead(PitA)
    /\ <<"A">> \in DOMAIN probes
    /\ probes[<<"A">>].probeType = "pit"
    /\ probes[<<"A">>].temperature = F32_2_5

\* ce2 is ce with category cat, and nothing else, raised by exactly 1
OnlyCounted(ce, ce2, cat) ==
    /\ DOMAIN ce2 = DOMAIN ce \cup {cat}
    /\ \A t \in DOMAIN ce2 :
          ce2[t] = ErrorCount(ce, t) + (IF t = cat THEN 1 ELSE 0)

BadMarker(ps) ==
    EndsWithColon(ps[1]) /\ Len(ps) > 11 /\ ps[11] /= PIDMarker

BadTemperature(ps) ==
    EndsWithColon(ps[1]) /\ Len(ps) >= 11 /\ ParseFloat(ps[9]).err

\* C5: a record with more than 11 tokens and a marker other than "PID:"
\* leaves every probe unchanged and raises only "unknownProbe", by 1; a
\* record of at least 11 tokens with a right shape and a non-numeric token
\* at index 8 leaves every probe unchanged and raises only "parseFloat", by
\* 1; with both faults only "unknownProbe" is raised.  Both return an error.
C5_FailedParseOnlyCounts ==
    [][ (nread' = nread + 1) =>
          /\ BadMarker(parts') =>
                /\ probes' = probes
                /\ OnlyCounted(collectErrors, collectErrors', "unknownProbe")
                /\ setErr' /= NoError
          /\ (BadTemperature(parts') /\ ~BadMarker(parts')) =>
                /\ probes' = probes
                /\ OnlyCounted(collectErrors, collectErrors', "parseFloat")
                /\ setErr' /= NoError
          /\ parts' \in {Tokens[PitLineXYZ], Tokens[BadMarkA], Tokens[BadBothA]} =>
                OnlyCounted(collectErrors, collectErrors', "unknownProbe")
          /\ parts' \in {Tokens[BadTempA], Tokens[BadPitTempA]} =>
                OnlyCounted(collectErrors, collectErrors', "parseFloat")
      ]_vars

C5_Witness ==
    /\ LineRead(BadBothA)
    /\ <<"A">> \in DOMAIN probes
    /\ ErrorCount(collectErrors, "unknownProbe") = 1
    /\ ErrorCount(collectErrors, "parseFloat") = 0

\* C6: a line with fewer than 11 tokens, or whose first token does not end
\* with ':', changes no probe and no failure counter and returns no error,
\* whatever its other tokens are.
C6_NonRecordsChangeNothing ==
    [][ ( /\ nread' = nread + 1
          /\ (Len(parts') < 11 \/ ~EndsWithColon(parts'[1])) )
        => /\ probes' = probes
           /\ collectErrors' = collectErrors
           /\ setErr' = NoError
      ]_vars

C6_Witness ==
    /\ LineRead(NoColonBad)
    /\ nread = 2
    /\ <<"A">> \in DOMAIN probes
    /\ collectErrors = <<>>

ValidRecord(ps) ==
    /\ EndsWithColon(ps[1])
    /\ Len(ps) >= 11
    /\ (Len(ps) = 11 \/ ps[11] = PIDMarker)
    /\ ~ParseFloat(ps[9]).err

\* C7: each valid record sets the collection count of its entity to 1 when
\* it creates it and raises it by exactly 1 otherwise (so two ingestions
\* raise it by 2), stores the record's temperature and leaves the other
\* entities alone; no step removes an entity or lowers a collection count.
C7_CollectionsCountIngestions ==
    [][ /\ (nread' = nread + 1 /\ ValidRecord(parts')) =>
              LET id == WithoutLast(parts'[1])
              IN  /\ id \in DOMAIN probes'
                  /\ probes'[id].collections =
                        (IF id \in DOMAIN probes THEN probes[id].collections + 1 ELSE 1)
                  /\ probes'[id].temperature = ParseFloat(parts'[9]).val
                  /\ \A o \in DOMAIN probes' \ {id} :
                        o \in DOMAIN probes /\ probes'[o] = probes[o]
        /\ \A id \in DOMAIN probes :
              /\ id \in DOMAIN probes'
              /\ probes'[id].collections >= probes[id].collections
      ]_vars

C7_Witness ==
    /\ LineRead(FoodA2)
    /\ nread = 2
    /\ <<"A">> \in DOMAIN probes
    /\ probes[<<"A">>].collections = 2
    /\ probes[<<"A">>].temperature = F32_m0_25

\* C12: a step that counts a "dial" failure and a step that counts a
\* "readLine" failure both lead to the backoff sleep, the sleep leads to
\* the next dial (so no dial follows a failure without the sleep between),
\* and the goroutine is always dialing, reading or sleeping: it never ends.
C12_FailureThenBackoffThenReconnect ==
    [][ /\ ErrorCount(collectErrors', "dial") /= ErrorCount(collectErrors, "dial") =>
              /\ spc = "dial"
              /\ ErrorCount(collectErrors', "dial") = ErrorCount(collectErrors, "dial") + 1
              /\ spc' = "sleep"
        /\ ErrorCount(collectErrors', "readLine") /= ErrorCount(collectErrors, "readLine") =>
              /\ spc = "read"
              /\ ErrorCount(collectErrors', "readLine")
                    = ErrorCount(collectErrors, "readLine") + 1
              /\ spc' = "sleep"
        /\ (spc = "sleep" /\ spc' /= spc) => spc' = "dial"
        /\ (spc' = "dial" /\ spc /= spc') => spc = "sleep"
        /\ spc' \in {"dial", "read", "sleep"}
      ]_vars

\* C15: no step changes the kind stored for an entity or removes the
\* entity, whatever the shape of the records that follow for its id.
C15_KindNeverChanges ==
    [][ \A id \in DOMAIN probes :
            /\ id \in DOMAIN probes'
            /\ probes'[id].probeType = probes[id].probeType
      ]_vars

C15_Witness ==
    /\ LineRead(FoodA)
    /\ <<"A">> \in DOMAIN probes
    /\ probes[<<"A">>].probeType = "pit"
    /\ probes[<<"A">>].collections = 2
    /\ probes[<<"A">>].temperature = F32_1_5

\* the kind a valid record has by its shape
RecordKind(ps) == IF Len(ps) = 11 THEN "food" ELSE "pit"

\* C16 (as stated): after each valid record its entity has the kind and
\* the temperature of that record, and the other entities are untouched.
C16_EntityIsLastRecord ==
    [][ (nread' = nread + 1 /\ ValidRecord(parts')) =>
            LET id == WithoutLast(parts'[1])
            IN  /\ id \in DOMAIN probes'
                /\ probes'[id].probeType = RecordKind(parts')
                /\ probes'[id].temperature = ParseFloat(parts'[9]).val
                /\ \A o \in DOMAIN probes' \ {id} :
                      o \in DOMAIN probes /\ probes'[o] = probes[o]
      ]_vars

\* C16 (amended): after each valid record its entity has the temperature of
\* that record and the blower sentinel, and its kind is the kind of the
\* record that created it (this record's only when it creates it); the
\* other entities are untouched, and a line that is not a valid record
\* changes no entity.
C16_LastTemperatureFirstKind ==
    [][ /\ (nread' = nread + 1 /\ ValidRecord(parts')) =>
              LET id == WithoutLast(parts'[1])
              IN  /\ id \in DOMAIN probes'
                  /\ probes'[id].probeType =
                        (IF id \in DOMAIN probes THEN probes[id].probeType
                                                 ELSE RecordKind(parts'))
                  /\ probes'[id].temperature = ParseFloat(parts'[9]).val
                  /\ probes'[id].blower = "unknown"
                  /\ \A o \in DOMAIN probes' \ {id} :
                        o \in DOMAIN probes /\ probes'[o] = probes[o]
        /\ ~(nread' = nread + 1 /\ ValidRecord(parts')) => probes' = probes
      ]_vars

C16_Witness ==
    /\ LineRead(PitA)
    /\ nread >= 2
    /\ <<"A">> \in DOMAIN probes
    /\ probes[<<"A">>].probeType = "food"
    /\ probes[<<"A">>].temperature = F32_2_5

\* C19: at most one connection is open at any time, and none is open while
\* the goroutine is about to dial or sleeps before dialing: the connection
\* whose read loop ended was closed first.
C19_AtMostOneConnection ==
    /\ conns <= 1
    /\ spc \in {"dial", "sleep"} => conns = 0


(***************************************************************************)
(* Properties of the polling collector (checked under SpecPoll).  A step   *)
(* that leaves ppc = "recordMetrics" is the fetch of a collection and resp *)
(* is what it met; the step that leaves ppc = "count" ends the collection. *)
(***************************************************************************)
NonSuccessStatus(r) == r.kind = "http" /\ r.status /= StatusOK

\* C1: a fetch answered with a status other than 200 is a failed
\* collection: recordMetrics returns an error and leaves both maps alone,
\* doMetrics then raises collections and failures by exactly 1 each and the
\* loop waits for the next tick; the process does not terminate.
C1_NonSuccessStatusIsFailedCollection ==
    [][ /\ (ppc = "recordMetrics" /\ ppc' /= ppc /\ NonSuccessStatus(resp')) =>
              /\ ppc' = "count"
              /\ errCount' = 1
              /\ sensors' = sensors
              /\ blowers' = blowers
        /\ (ppc = "count" /\ ppc' /= ppc /\ NonSuccessStatus(resp)) =>
              /\ collections' = collections + 1
              /\ failures' = failures + 1
              /\ ppc' = "select"
      ]_vars

\* the ids of a payload list that get stored
StoredIds(list) == {list[i].ID : i \in 1..Len(list)} \ {""}

\* the last entry of a payload list with the given id
LastEntry(list, id) ==
    list[CHOOSE i \in 1..Len(list) :
            /\ list[i].ID = id
            /\ \A j \in (i + 1)..Len(list) : list[j].ID /= id]

\* C8: once a fetch has succeeded, the sensor map holds exactly the
\* non-empty-id sensors of its payload and the blower map exactly its
\* non-empty-id blowers (each with its values and its cleaned name): nothing
\* of the previous snapshot that the payload lacks is left.
C8_SuccessfulFetchReplaces ==
    (ppc = "count" /\ errCount = 0) =>
        /\ resp.kind = "http" /\ resp.body = "json"
        /\ DOMAIN sensors = StoredIds(resp.sensors)
        /\ \A id \in DOMAIN sensors :
              LET e == LastEntry(resp.sensors, id)
              IN  /\ sensors[id].ID = id
                  /\ sensors[id].Temp = e.Temp
                  /\ sensors[id].Blower = e.Blower
                  /\ sensors[id].Name = cleanName(e.Name)
        /\ DOMAIN blowers = StoredIds(resp.blowers)
        /\ \A id \in DOMAIN blowers :
              LET e == LastEntry(resp.blowers, id)
              IN  /\ blowers[id].ID = id
                  /\ blowers[id].On = e.On
                  /\ blowers[id].Name = cleanName(e.Name)
        /\ "s1" \in DOMAIN sensors => sensors["s1"].Name = <<"p", "i", "t", "_", "1">>
        /\ "s2" \in DOMAIN sensors => sensors["s2"].Name = <<"f", "o", "o", "d", "2">>
        /\ "b1" \in DOMAIN blowers =>
              blowers["b1"].Name = <<"b", "i", "g", "_", "e", "g", "g">>

C8_Witness ==
    /\ ppc = "count"
    /\ errCount = 0
    /\ collections = 1
    /\ failures = 0
    /\ DOMAIN sensors = {"s2"}
    /\ blowers = <<>>

FailedFetch(r) ==
    \/ r.kind = "doError"
    \/ /\ r.kind = "http"
       /\ r.status = StatusOK
       /\ \/ r.body \in {"readError", "notJSON"}
          \/ r.body = "json" /\ Len(r.sensors) = 0

\* C9: a fetch that fails in transport, on an unreadable or undecodable
\* body, or on a payload without sensors (whatever blowers it has) leaves
\* both maps as they were, and the collection raises failures by exactly 1.
C9_FailedFetchKeepsSnapshot ==
    [][ /\ (ppc = "recordMetrics" /\ ppc' /= ppc /\ FailedFetch(resp')) =>
              /\ sensors' = sensors
              /\ blowers' = blowers
              /\ ppc' = "count"
              /\ errCount' = 1
        /\ (ppc = "count" /\ ppc' /= ppc /\ FailedFetch(resp)) =>
              /\ sensors' = sensors
              /\ blowers' = blowers
              /\ failures' = failures + 1
              /\ collections' = collections + 1
      ]_vars

C9_Witness ==
    /\ ppc = "select"
    /\ resp.body = "json"
    /\ Len(resp.sensors) = 0
    /\ Len(resp.blowers) > 0
    /\ collections = 2
    /\ failures = 1
    /\ DOMAIN sensors = {"s1", "s2"}

\* C10: whenever c.loop is not inside a collection, it has started at least
\* one (the one at startup) and collections equals the number of
\* collections it has started: every collection, successful or failed,
\* raised the counter by exactly 1.
C10_EveryCollectionCounted ==
    ppc \notin {"start", "recordMetrics", "count"} =>
        /\ calls >= 1
        /\ collections = calls

\* (C14 is checked under FairSpecPoll.)
\* C14: once ctx is cancelled c.loop eventually returns (so it starts no
\* unbounded number of further collections), and it has returned only if
\* ctx was cancelled.
C14_CancelStopsLoop ==
    /\ cancelled ~> (ppc = "returned")
    /\ [](ppc = "returned" => cancelled)

\* 1 while the fetch of the collection in progress has replaced the maps
\* and doMetrics has not counted it yet
Uncounted == IF ppc = "count" /\ errCount = 0 THEN 1 ELSE 0

\* C20 (as stated): in every state 0 <= failures <= collections, no step
\* lowers either counter, and collections - failures is the number of
\* fetches that replaced the maps.
C20_CountersMatchReplacements ==
    [][ /\ 0 <= failures' /\ failures' <= collections'
        /\ failures' >= failures
        /\ collections' >= collections
        /\ collections' - failures' = installs'
      ]_vars

\* C20 (amended): in every state 0 <= failures <= collections, no step
\* lowers either counter, and collections - failures is the number of
\* fetches that replaced the maps, less the one whose collection doMetrics
\* has not counted yet.
C20_CountersLagReplacements ==
    [][ /\ 0 <= failures' /\ failures' <= collections'
        /\ failures' >= failures
        /\ collections' >= collections
        /\ collections' - failures' = installs' - Uncounted'
      ]_vars

C20_Witness ==
    /\ ppc = "count"
    /\ errCount = 0
    /\ installs = 2
    /\ collections = 1
    /\ failures = 0

\* the step is a fetch that doMetrics will count as successful
SuccessfulFetch == ppc = "recordMetrics" /\ ppc' = "count" /\ errCount' = 0

\* C21 (as stated): after a fetch counted as successful the sensor map
\* holds at least one sensor, and no step replaces a non-empty sensor map
\* by an empty one.
C21_SensorsNeverEmptied ==
    [][ /\ SuccessfulFetch => DOMAIN sensors' /= {}
        /\ DOMAIN sensors /= {} => DOMAIN sensors' /= {}
      ]_vars

\* C21 (amended): a fetch counted as successful had a payload of at least
\* one sensor entry and leaves in the sensor map exactly the entries with a
\* non-empty id: the map is empty after it exactly when every entry of the
\* payload has an empty id, whatever the map held before; only such a step
\* empties a non-empty sensor map.
C21_SensorsAreNonEmptyIds ==
    [][ /\ SuccessfulFetch =>
              /\ Len(resp'.sensors) >= 1
              /\ DOMAIN sensors' = StoredIds(resp'.sensors)
              /\ DOMAIN sensors' = {} <=>
                    \A i \in 1..Len(resp'.sensors) : resp'.sensors[i].ID = ""
        /\ (DOMAIN sensors /= {} /\ DOMAIN sensors' = {}) =>
              /\ SuccessfulFetch
              /\ \A i \in 1..Len(resp'.sensors) : resp'.sensors[i].ID = ""
      ]_vars

C21_Witness ==
    /\ ppc = "count"
    /\ errCount = 0
    /\ installs = 2
    /\ Len(resp.sensors) >= 1
    /\ \A i \in 1..Len(resp.sensors) : resp.sensors[i].ID = ""
    /\ sensors = <<>>


(***************************************************************************)
(* Properties of the exports (checked under SpecExport).                   *)
(***************************************************************************)
SendingPCs == {"sendError", "sendProbe", "sendCollections"}

\* C11: no scrape request holds the collector's mutex while its Collect is
\* blocked handing a metric to the channel (in the polling program the
\* mutex is held within createMetrics only, which sends nothing).
C11_NoSendUnderLock ==
    \A e \in Scrapers : ~(lock = e /\ scrape[e].pc \in SendingPCs)

\* the metrics an export of the streaming collector has built so far
Built(e) ==
    scrape[e].sent \cup (IF scrape[e].pc \in SendingPCs THEN {scrape[e].m} ELSE {})

\* the store holds now what the metric says
Agrees(m) ==
    CASE m.desc = "probe_status" ->
            LET id == m.labelValues[2]
            IN  /\ id \in DOMAIN probes
                /\ probes[id].probeType = m.labelValues[1]
                /\ probes[id].blower = m.labelValues[3]
                /\ probes[id].temperature = m.value
      [] m.desc = "probe_collections_total" ->
            LET id == m.labelValues[2]
            IN  /\ id \in DOMAIN probes
                /\ probes[id].probeType = m.labelValues[1]
                /\ probes[id].collections = m.value
      [] m.desc = "collect_failures_total" ->
            LET k == m.labelValues[1]
            IN  k \in DOMAIN collectErrors /\ collectErrors[k] = m.value
      [] OTHER -> FALSE

WellFormedIds == {id \in DOMAIN probes : \A i \in 1..Len(id) : id[i] /= InvalidByte}

\* what an export of the streaming collector has to contain
ExpectedStream ==
    {Metric("collect_failures_total", collectErrors[k], <<k>>) : k \in DOMAIN collectErrors}
    \cup {Metric("probe_status", probes[id].temperature,
                 <<probes[id].probeType, id, probes[id].blower>>) : id \in WellFormedIds}
    \cup {Metric("probe_collections_total", probes[id].collections,
                 <<probes[id].probeType, id>>) : id \in WellFormedIds}

\* what an export of the polling collector has to contain
ExpectedPoll ==
    {Metric("failures_total", failures, <<>>), Metric("collections_total", collections, <<>>)}
    \cup {Metric("sensor_temperature", sensors[id].Temp,
                 <<id, sensors[id].Name,
                   IF sensors[id].Blower = <<>> THEN "" ELSE sensors[id].Blower[1]>>) :
             id \in DOMAIN sensors}
    \cup {Metric("blower_state", blowers[id].On, <<id, blowers[id].Name>>) :
             id \in DOMAIN blowers}

MetricSet(ms) == {ms[i] : i \in 1..Len(ms)}

\* C17: when Collect of the streaming collector returns it has handed over
\* exactly one counter per failure category that has occurred and, for each
\* stored entity whose id is a valid label value, exactly one gauge and one
\* collection counter; the records of an entity whose id is not are left
\* out and nothing else is (nothing at all is handed over when the store is
\* empty and no failure has occurred).  The list createMetrics of the
\* polling collector builds holds, each exactly once, the failure counter,
\* the attempt counter, one gauge per stored sensor and one per stored
\* blower (the two counters alone when both maps are empty); Collect hands
\* over that list, unchanged, record by record, and returns only when all
\* of it is handed over.
C17_ExportIsTheSnapshot ==
    [][ \A e \in Scrapers :
          /\ (scrape[e].pc = "range" /\ scrape'[e].pc = "idle") =>
                /\ scrape[e].sent = ExpectedStream
                /\ Cardinality(scrape[e].sent)
                      = Cardinality(DOMAIN collectErrors) + 2 * Cardinality(WellFormedIds)
                /\ (probes = <<>> /\ collectErrors = <<>>) => scrape[e].sent = {}
          /\ (pscrape[e].pc = "idle" /\ pscrape'[e].pc = "send") =>
                /\ MetricSet(pscrape'[e].metrics) = ExpectedPoll
                /\ Len(pscrape'[e].metrics)
                      = 2 + Cardinality(DOMAIN sensors) + Cardinality(DOMAIN blowers)
                /\ pscrape'[e].n = 0
          /\ (pscrape[e].pc = "send" /\ pscrape'[e].pc = "send") =>
                /\ pscrape'[e].metrics = pscrape[e].metrics
                /\ pscrape'[e].n \in {pscrape[e].n, pscrape[e].n + 1}
          /\ (pscrape[e].pc = "send" /\ pscrape'[e].pc = "idle") =>
                pscrape[e].n = Len(pscrape[e].metrics)
      ]_vars

C17_Witness ==
    \E e \in Scrapers :
        /\ scrape[e].pc = "range"
        /\ scrape[e].errs = {}
        /\ scrape[e].ids = {}
        /\ DOMAIN probes = {<<"A">>, <<InvalidByte>>}
        /\ DOMAIN collectErrors = {"dial", "readLine"}
        /\ Cardinality(scrape[e].sent) = 4

\* the attempt counter an export shows
AttemptsIn(ms) == (CHOOSE m \in MetricSet(ms) : m.desc = "collections_total").value

\* the ids an export shows for a descriptor
IdsIn(ms, desc) == {m.labelValues[1] : m \in {x \in MetricSet(ms) : x.desc = desc}}

\* C18 (as stated): an export that shows the maps the fetch of the k-th
\* collection installed shows an attempt counter of at least k, and an
\* export that shows a sensor shows an attempt counter of at least 1.
C18_MapsAndAttemptsTogether ==
    [][ \A e \in Scrapers :
          (pscrape[e].pc = "idle" /\ pscrape'[e].pc = "send") =>
             /\ (ppc = "count" /\ errCount = 0) => AttemptsIn(pscrape'[e].metrics) >= calls
             /\ IdsIn(pscrape'[e].metrics, "sensor_temperature") /= {} =>
                   AttemptsIn(pscrape'[e].metrics) >= 1
      ]_vars

\* C18 (amended): an export shows the two maps whole, as one fetch left
\* them (the sensors and the blowers of the k-th collection's fetch while
\* that collection is not counted yet), and the attempt counter as it
\* stands, which is k - 1 until doMetrics has counted the k-th collection
\* and never less.
C18_MapsWholeAttemptsLag ==
    [][ \A e \in Scrapers :
          (pscrape[e].pc = "idle" /\ pscrape'[e].pc = "send") =>
             /\ IdsIn(pscrape'[e].metrics, "sensor_temperature") = DOMAIN sensors
             /\ IdsIn(pscrape'[e].metrics, "blower_state") = DOMAIN blowers
             /\ AttemptsIn(pscrape'[e].metrics) = collections
             /\ AttemptsIn(pscrape'[e].metrics) >= calls - 1
             /\ (ppc = "count" /\ errCount = 0) =>
                   /\ IdsIn(pscrape'[e].metrics, "sensor_temperature")
                         = StoredIds(resp.sensors)
                   /\ IdsIn(pscrape'[e].metrics, "blower_state") = StoredIds(resp.blowers)
                   /\ AttemptsIn(pscrape'[e].metrics) = calls - 1
      ]_vars

C18_Witness ==
    \E e \in Scrapers :
        /\ pscrape[e].pc = "send"
        /\ IdsIn(pscrape[e].metrics, "sensor_temperature") = {"s1"}
        /\ IdsIn(pscrape[e].metrics, "blower_state") = {"b1"}
        /\ AttemptsIn(pscrape[e].metrics) = 0


=============================================================================
